---- MODULE Spec2Model ----
(***************************************************************************)
(* Model of the EGR436 dashboard firmware (src/main.c): the main control   *)
(* loop, the three interrupt handlers (tachometer capture TA0_0, flash     *)
(* timer TA1_0, paddle/hall port PORT6), the RPM conversion and the        *)
(* light-strip rendering.                                                  *)
(*                                                                         *)
(* Scheduling: the three interrupts have the same (default) NVIC priority, *)
(* so a handler runs to completion with respect to the other handlers and  *)
(* preempts the main loop between any two of its statements.  The variable *)
(* isr is the position inside the running handler ("none": main loop runs).*)
(* A pending, enabled port interrupt is taken before the main loop         *)
(* executes its next statement.                                            *)
(***************************************************************************)
EXTENDS Integers, Sequences, FiniteSets, TLC

----------------------------------------------------------------------------
(* Bounds of the model (not program constants).                            *)

\* number of flash-timer interrupts in one run of the whole system (Spec)
\* and in one run of the tachometer / light-strip part alone (SpecRpm)
MaxFire == 1
MaxFireRpm == 3

\* number of flash-timer interrupts in one run of the flash scheduler
\* (SpecFlash): enough for the 16-bit compare target to wrap
MaxFireLong == 17

\* number of port-6 lines that can be pending at the same time
MaxPending == 2

\* saturation of the confirmation-credit history counter
MaxCredit == 2

----------------------------------------------------------------------------
(* Program constants.                                                      *)

BRIGHTNESS == 3
NUM_GREEN_LEDS == 18
NUM_YELLOW_LEDS == 6
NUM_RED_LEDS == 6
NUM_LEDS == NUM_GREEN_LEDS + NUM_YELLOW_LEDS + NUM_RED_LEDS
MAX_RPM == 12000

BIT0 == 1
BIT1 == 2
BIT4 == 16
BIT5 == 32

\* lines of port 6 with the interrupt enabled and an input wired to a handler
\* branch: P6IE = 0x77, of which the handler services BIT0, BIT1, BIT4, BIT5
P6Lines == {BIT0, BIT1, BIT4, BIT5}

\* uint8_t gearON[10], gearOFF[10]; C index i is TLA+ index i+1
gearONTable == <<119, 5, 179, 167, 197, 230, 246, 7, 247, 231>>
\* variant: the entry of digit 3 misses segment bit 4 (0x48 for 0x58)
gearOFFTable_Typo == <<136, 250, 76, 72, 58, 25, 9, 248, 8, 24>>
gearOFFTable == <<136, 250, 76, 88, 58, 25, 9, 248, 8, 24>>

gearON(g) == gearONTable[g + 1]
gearOFF(g) == gearOFFTable[g + 1]

----------------------------------------------------------------------------
(* 8-bit and 16-bit machine arithmetic.                                    *)

RECURSIVE BitAndN(_, _, _)
BitAndN(a, b, n) ==
    IF n = 0 THEN 0
    ELSE (IF a % 2 = 1 /\ b % 2 = 1 THEN 1 ELSE 0)
         + 2 * BitAndN(a \div 2, b \div 2, n - 1)

RECURSIVE BitOrN(_, _, _)
BitOrN(a, b, n) ==
    IF n = 0 THEN 0
    ELSE (IF a % 2 = 1 \/ b % 2 = 1 THEN 1 ELSE 0)
         + 2 * BitOrN(a \div 2, b \div 2, n - 1)

\* a & b, a | b, ~a on uint8_t
And8(a, b) == BitAndN(a, b, 8)
Or8(a, b) == BitOrN(a, b, 8)
Not8(a) == 255 - a

U8(x) == x % 256
U16(x) == x % 65536

----------------------------------------------------------------------------
(* Light strip (SK9822): NUM_LEDS LEDs behind a frame pointer.  A start    *)
(* frame resets the pointer; each LED frame is taken by the LED under the  *)
(* pointer and advances it; frames past the last LED fall off the end.     *)

Off == <<0, 0, 0>>
Red == <<255, 0, 0>>

\* lines 66-82: colour table, index 0..NUM_LEDS-1, entries <<red, green, blue>>
lightstripInit ==
    [i \in 0..(NUM_LEDS - 1) |->
        IF i < NUM_GREEN_LEDS THEN <<0, 255, 0>>
        ELSE IF i < NUM_GREEN_LEDS + NUM_YELLOW_LEDS /\ i >= NUM_GREEN_LEDS
             THEN <<255, 255, 0>>
             ELSE <<255, 0, 0>>]

StripOff == [led |-> [i \in 0..(NUM_LEDS - 1) |-> Off], ptr |-> 0]

\* a run of LED frames on the wire, each a header byte followed by blue,
\* green, red; cols[k] = <<red, green, blue>> of the k-th frame.  The LED
\* under the pointer takes each frame; brightness 0 in the header is dark.
SendFrames(st, hdr, cols) ==
    [led |-> [i \in 0..(NUM_LEDS - 1) |->
                 IF i >= st.ptr /\ i < st.ptr + Len(cols)
                 THEN IF hdr - 224 = 0 THEN Off ELSE cols[i - st.ptr + 1]
                 ELSE st.led[i]],
     ptr |-> st.ptr + Len(cols)]

\* lines 240-246
sendLS_START(st) == [st EXCEPT !.ptr = 0]

\* lines 248-254
sendLS(st, red, green, blue) ==
    SendFrames(st, 224 + BRIGHTNESS, <<<<red, green, blue>>>>)

\* number of frames sent by the loop of clearLS: i = 0 .. NUM_LEDS inclusive
clearLSFrames == NUM_LEDS + 1

\* variant: only the start frame is sent
clearLS_StartOnly(st) == sendLS_START(st)

\* lines 256-267
clearLS(st) ==
    SendFrames(sendLS_START(st), 224, [k \in 1..clearLSFrames |-> <<0, 0, 0>>])

\* variant: the loop stops one LED short
flashLoop_Short(st) ==
    SendFrames(st, 224 + BRIGHTNESS, [k \in 1..(NUM_LEDS - 1) |-> <<255, 0, 0>>])

\* lines 286-289: for(i = 0; i < NUM_LEDS; i++) sendLS(255, 0, 0)
flashLoop(st) ==
    SendFrames(st, 224 + BRIGHTNESS, [k \in 1..NUM_LEDS |-> <<255, 0, 0>>])

\* variant: every lit LED is red
barLoop_Red(st, n, table) ==
    SendFrames(st, 224 + BRIGHTNESS, [k \in 1..n |-> <<255, 0, 0>>])

\* lines 299-302: for(i = 0; i < ledsON; i++) sendLS(lightstrip[i]...)
barLoop(st, n, table) ==
    SendFrames(st, 224 + BRIGHTNESS, [k \in 1..n |-> table[k - 1]])

\* line 278: ledsON = (rpm * NUM_LEDS) / (MAX_RPM - 1500), stored in a uint8_t
ledsONOf(r) == U8((r * NUM_LEDS) \div (MAX_RPM - 1500))

\* line 282: the shift-zone test
InShiftZone(n) == n > NUM_LEDS

\* lines 280-303: the frames sent by one render
Render(st, n, flash, table) ==
    LET c == clearLS(st) IN
    IF InShiftZone(n)
    THEN IF flash THEN flashLoop(sendLS_START(c)) ELSE clearLS(c)
    ELSE barLoop(sendLS_START(c), n, table)

----------------------------------------------------------------------------
(* RPM conversion, line 275:                                               *)
(*   rpm = (uint16_t)((750000.0 * 60.0) / ((float)rpmCaptureValue * 8.0))  *)
(* The quotient is computed in floating point and converted to uint16_t    *)
(* by truncation.  Converting a value that does not fit (quotient above    *)
(* 65535, or the infinity of a division by 0.0) is undefined: the build    *)
(* may saturate or wrap.                                                   *)

TickRate == 750000
PulsesPerRev == 8

\* variant: the quotient rounded to the nearest integer
RpmQuotient_Rounded(t) ==
    (2 * TickRate * 60 + t * PulsesPerRev) \div (2 * t * PulsesPerRev)

RpmQuotient(t) == (TickRate * 60) \div (t * PulsesPerRev)

RpmResults(t) ==
    IF t = 0 THEN {0, 65535}
    ELSE IF RpmQuotient(t) <= 65535 THEN {RpmQuotient(t)}
         ELSE {65535, U16(RpmQuotient(t))}

----------------------------------------------------------------------------
(* State.                                                                  *)

VARIABLES
    P8OUT,            \* relay output port: BIT4 up relay, BIT5 down relay
    P6IFG,            \* pending edge indications of port 6
    P4OUT,            \* 7-segment output port
    gearIndex,        \* uint8_t gearIndex
    up_flag,          \* bool up_flag
    down_flag,        \* bool down_flag
    LSflag,           \* bool LSflag (new tachometer sample)
    LSflash_flag,     \* bool LSflash_flag (flash phase)
    rpmCaptureValue,  \* uint16_t rpmCaptureValue
    rpm,              \* uint16_t rpm
    ledsON,           \* uint8_t ledsON
    lightstrip,       \* uint8_t lightstrip[NUM_LEDS][3]
    strip,            \* the LEDs of the strip and its frame pointer
    TA1_CCR0,         \* TIMER_A1->CCR[0]
    tReg,             \* register copy of rpmCaptureValue loaded by the guard
    pc,               \* next statement of the main loop (source line)
    isr,              \* next statement of the running handler, or "none"
    \* history variables, read only by the properties
    nFire,            \* flash-timer interrupts taken
    lastInterval,     \* timer ticks between the last two tachometer pulses
    conv,             \* tick count used by the conversion in progress, and
                      \* the value of rpm before it
    hallCredit,       \* hall edges handled minus gear changes (saturating)
    upStale,          \* up_flag was seen set at gear 6 and left pending
    downStale,        \* down_flag was seen set at gear 1 and left pending
    scen,             \* progress of a paddle / confirmation / iteration sequence
    entryRelay,       \* relay bits of P8OUT when the running port handler began
    served,           \* line served by the running port handler (0: none)
    again             \* a handler set the flag the main loop is processing,
                      \* after the main loop used the event it stands for

shiftVars == <<P4OUT, gearIndex, up_flag, down_flag>>
rpmVars == <<rpmCaptureValue, LSflag, rpm, ledsON, lightstrip, strip, tReg,
             lastInterval, conv>>
flashVars == <<LSflash_flag, TA1_CCR0, nFire>>
histVars == <<hallCredit, upStale, downStale, scen, entryRelay, served, again>>

vars == <<P8OUT, P6IFG, pc, isr, shiftVars, rpmVars, flashVars, histVars>>

\* tachometer pulse-to-pulse intervals, in timer ticks, offered by the engine.
\* Whole system: one cruising speed (about 5600 RPM).
CruiseIntervals == {999}
\* Tachometer / light-strip part: intervals whose quotient does not fit 16
\* bits (1, 85), the largest that fits (86), about 12000 RPM (468, 469), both
\* sides of ledsON = 31 (518, 519) and of 10500 RPM (535, 536), about 6000 RPM
\* (937, 938), a quotient with fraction above one half (999), the longest
\* interval the counter holds (65535) and one full turn of it (65536).
Intervals == {1, 85, 86, 468, 469, 518, 519, 535, 536, 937, 938, 999,
              65535, 65536}

P6IE == 119
RelayMask == 48

\* scen.ph: 1 after a paddle edge was served in Idle with no flag pending
\* (gear g at that time), 2 after the matching hall edge was then served,
\* 3 during the first main-loop iteration started after it, 4 when that
\* iteration has ended; it = 1 once an iteration started while ph = 1
scenNone == [ph |-> 0, dir |-> "none", g |-> 0, it |-> 0]
convNone == [t |-> 0, div |-> FALSE, on |-> FALSE, prev |-> 0]

Idle == And8(P8OUT, RelayMask) = 0
UpRelayEngaged == And8(P8OUT, RelayMask) = BIT4
DownRelayEngaged == And8(P8OUT, RelayMask) = BIT5

Init ==
    /\ P8OUT = 0
    /\ P6IFG = 0
    /\ P4OUT = 0
    /\ gearIndex = 1
    /\ up_flag = FALSE
    /\ down_flag = FALSE
    /\ LSflag = FALSE
    /\ LSflash_flag = FALSE
    /\ rpmCaptureValue = 0
    /\ rpm = 0
    /\ ledsON = 0
    /\ lightstrip = lightstripInit
    /\ strip = StripOff
    /\ TA1_CCR0 = 4000
    /\ tReg = 0
    /\ pc = "L86"
    /\ isr = "none"
    /\ nFire = 0
    /\ lastInterval = 0
    /\ conv = convNone
    /\ hallCredit = 0
    /\ upStale = FALSE
    /\ downStale = FALSE
    /\ scen = scenNone
    /\ entryRelay = -1
    /\ served = 0
    /\ again = FALSE

----------------------------------------------------------------------------
(* Hardware: a falling edge on an input line of port 6 sets its pending    *)
(* bit, at any time.  The handler reads P6IFG when it is entered and       *)
(* overwrites it at line 345, so an edge that arrives anywhere inside the  *)
(* handler has the effect of one that arrives just before line 345; the    *)
(* model lets it arrive there.                                             *)

Pending(f) == Cardinality({b \in P6Lines : And8(f, b) # 0})

Edge(b) ==
    /\ And8(P6IFG, b) = 0
    /\ Pending(P6IFG) < MaxPending
    /\ isr \in {"none", "L345"}
    /\ P6IFG' = Or8(P6IFG, b)
    /\ UNCHANGED <<P8OUT, pc, isr, shiftVars, rpmVars, flashVars, histVars>>

UpPaddlePulled == Edge(BIT0)
DownPaddlePulled == Edge(BIT1)
UpShiftConfirmed == Edge(BIT4)
DownShiftConfirmed == Edge(BIT5)

----------------------------------------------------------------------------
(* PORT6_IRQHandler, lines 322-346.                                        *)

\* variant: the up-paddle branch switches off the relay it has just engaged
UpPaddleOffBit_Same == BIT4

\* line 327 and line 332: the relay switched off after the other is engaged
UpPaddleOffBit == BIT5
DownPaddleOffBit == BIT4

\* variant: a hall edge leaves the relays as they are
HallRelays_Keep(p) == p

\* lines 336 and 341: P8OUT &= ~0x30
HallRelays(p) == And8(p, Not8(RelayMask))

\* history: one more hall edge handled (lines 337, 342).  hallCredit never
\* exceeds the true difference between hall edges handled and gear changes,
\* so a gear change made while it is positive is covered by a hall edge.
HallCreditAfter(c) == IF c < MaxCredit THEN c + 1 ELSE c

\* the line whose branch the if / else-if chain of lines 324-339 takes
ServedLine(f) ==
    IF And8(f, BIT0) # 0 THEN BIT0
    ELSE IF And8(f, BIT1) # 0 THEN BIT1
    ELSE IF And8(f, BIT4) # 0 THEN BIT4
    ELSE IF And8(f, BIT5) # 0 THEN BIT5 ELSE 0

\* entry: the if / else-if chain on P6IFG and the first statement of the branch
PORT6_Entry ==
    /\ isr = "none"
    /\ And8(P6IFG, P6IE) # 0
    /\ IF And8(P6IFG, BIT0) # 0
       THEN /\ P8OUT' = Or8(P8OUT, BIT4)
            /\ isr' = "L327"
            /\ scen' = IF Idle /\ ~up_flag /\ ~down_flag
                       THEN [ph |-> 1, dir |-> "up", g |-> gearIndex, it |-> 0]
                       ELSE scenNone
       ELSE IF And8(P6IFG, BIT1) # 0
       THEN /\ P8OUT' = Or8(P8OUT, BIT5)
            /\ isr' = "L332"
            /\ scen' = IF Idle /\ ~up_flag /\ ~down_flag
                       THEN [ph |-> 1, dir |-> "down", g |-> gearIndex, it |-> 0]
                       ELSE scenNone
       ELSE IF And8(P6IFG, BIT4) # 0
       THEN /\ P8OUT' = HallRelays(P8OUT)
            /\ isr' = "L337"
            /\ scen' = IF scen.ph = 1 /\ scen.dir = "up"
                       THEN [scen EXCEPT !.ph = 2]
                       ELSE scenNone
       ELSE IF And8(P6IFG, BIT5) # 0
       THEN /\ P8OUT' = HallRelays(P8OUT)
            /\ isr' = "L342"
            /\ scen' = IF scen.ph = 1 /\ scen.dir = "down"
                       THEN [scen EXCEPT !.ph = 2]
                       ELSE scenNone
       ELSE /\ isr' = "L345"
            /\ UNCHANGED <<P8OUT, scen>>
    /\ entryRelay' = And8(P8OUT, RelayMask)
    /\ served' = ServedLine(P6IFG)
    /\ UNCHANGED <<P6IFG, pc, shiftVars, rpmVars, flashVars,
                   hallCredit, upStale, downStale, again>>

PORT6_L327 ==
    /\ isr = "L327"
    /\ P8OUT' = And8(P8OUT, Not8(UpPaddleOffBit))
    /\ isr' = "L345"
    /\ UNCHANGED <<P6IFG, pc, shiftVars, rpmVars, flashVars, histVars>>

PORT6_L332 ==
    /\ isr = "L332"
    /\ P8OUT' = And8(P8OUT, Not8(DownPaddleOffBit))
    /\ isr' = "L345"
    /\ UNCHANGED <<P6IFG, pc, shiftVars, rpmVars, flashVars, histVars>>

PORT6_L337 ==
    /\ isr = "L337"
    /\ up_flag' = TRUE
    /\ hallCredit' = HallCreditAfter(hallCredit)
    /\ upStale' = FALSE
    /\ isr' = "L345"
    /\ again' = IF pc \in {"L91", "L92", "L93", "L94"} THEN TRUE ELSE again
    /\ UNCHANGED <<P8OUT, P6IFG, pc, P4OUT, gearIndex, down_flag, rpmVars,
                   flashVars, downStale, scen, entryRelay, served>>

PORT6_L342 ==
    /\ isr = "L342"
    /\ down_flag' = TRUE
    /\ hallCredit' = HallCreditAfter(hallCredit)
    /\ downStale' = FALSE
    /\ isr' = "L345"
    /\ again' = IF pc \in {"L97", "L98", "L99", "L100"} THEN TRUE ELSE again
    /\ UNCHANGED <<P8OUT, P6IFG, pc, P4OUT, gearIndex, up_flag, rpmVars,
                   flashVars, upStale, scen, entryRelay, served>>

\* line 345: P6IFG &= ~0xFF
PORT6_L345 ==
    /\ isr = "L345"
    /\ P6IFG' = And8(P6IFG, Not8(255))
    /\ isr' = "none"
    /\ entryRelay' = -1
    /\ served' = 0
    /\ UNCHANGED <<P8OUT, pc, shiftVars, rpmVars, flashVars,
                   hallCredit, upStale, downStale, scen, again>>

----------------------------------------------------------------------------
(* TA0_0_IRQHandler, lines 313-320: the capture register holds the 16-bit  *)
(* counter value at the pulse; the counter was reset at the previous one.  *)

\* variant: the handler toggles the flag
SampleReady_Toggle(f) == ~f

\* line 316: LSflag = 1, whatever the flag f was
SampleReady(f) == TRUE

TA0_0_IRQHandler(S) ==
    /\ isr = "none"
    /\ \E e \in S :
          /\ rpmCaptureValue' = U16(e)
          /\ lastInterval' = e
    /\ LSflag' = SampleReady(LSflag)
    /\ again' = IF pc \in {"L278", "L88"} THEN TRUE ELSE again
    /\ UNCHANGED <<P8OUT, P6IFG, pc, isr, shiftVars, rpm, ledsON, lightstrip,
                   strip, tReg, conv, flashVars, hallCredit, upStale, downStale,
                   scen, entryRelay, served>>

(* TA1_0_IRQHandler, lines 306-311.                                        *)

\* variant: the offset written in hexadecimal, 0x4000 for 4000
FlashPeriod_Other == 4 * 4096
\* line 310: the offset added to the compare target
FlashPeriod == 4000

TA1_0_IRQHandler(maxFire) ==
    /\ isr = "none"
    /\ nFire < maxFire
    /\ LSflash_flag' = ~LSflash_flag
    /\ TA1_CCR0' = U16(TA1_CCR0 + FlashPeriod)
    /\ nFire' = nFire + 1
    /\ UNCHANGED <<P8OUT, P6IFG, pc, isr, shiftVars, rpmVars, histVars>>

----------------------------------------------------------------------------
(* Main loop, lines 84-102.  One action per statement that reads or writes *)
(* a variable shared with a handler; pc is the line of the next statement. *)

MainRuns == isr = "none" /\ And8(P6IFG, P6IE) = 0

\* an iteration of the loop starts / ends (history of the sequence scen)
ScenAtStart == IF scen.ph = 1 THEN [scen EXCEPT !.it = 1]
               ELSE IF scen.ph = 2 THEN [scen EXCEPT !.ph = 3]
               ELSE IF scen.ph = 4 THEN scenNone ELSE scen
ScenAtEnd == IF scen.ph = 3 THEN [scen EXCEPT !.ph = 4] ELSE scen

\* line 86: if(LSflag)
Main_L86 ==
    /\ MainRuns /\ pc = "L86"
    /\ pc' = IF LSflag THEN "L271" ELSE "L90"
    /\ scen' = ScenAtStart
    /\ UNCHANGED <<P8OUT, P6IFG, isr, shiftVars, rpmVars, flashVars,
                   hallCredit, upStale, downStale, entryRelay, served, again>>

\* rpmtoLS, lines 271-273: if(!rpmCaptureValue) rpm = 0;
Main_L271 ==
    /\ MainRuns /\ pc = "L271"
    /\ IF rpmCaptureValue = 0
       THEN /\ rpm' = 0
            /\ tReg' = 0
            /\ conv' = [t |-> 0, div |-> FALSE, on |-> TRUE, prev |-> rpm]
            /\ pc' = "L278"
       ELSE /\ tReg' = rpmCaptureValue
            /\ pc' = "L275"
            /\ UNCHANGED <<rpm, conv>>
    /\ UNCHANGED <<P8OUT, P6IFG, isr, shiftVars, rpmCaptureValue, LSflag,
                   ledsON, lightstrip, strip, lastInterval, flashVars, histVars>>

\* the divisor of line 275: rpmCaptureValue is not volatile, so the build
\* either reuses the value loaded by the guard or loads the variable again
Divisors == {tReg, rpmCaptureValue}

\* rpmtoLS, line 275
Main_L275 ==
    /\ MainRuns /\ pc = "L275"
    /\ \E t \in Divisors :
          /\ rpm' \in RpmResults(t)
          /\ conv' = [t |-> t, div |-> TRUE, on |-> TRUE, prev |-> rpm]
    /\ tReg' = 0
    /\ pc' = "L278"
    /\ UNCHANGED <<P8OUT, P6IFG, isr, shiftVars, rpmCaptureValue, LSflag,
                   ledsON, lightstrip, strip, lastInterval, flashVars, histVars>>

\* rpmtoLS, lines 278-303: ledsON, clearLS and the render; LSflash_flag is
\* read once, at line 283
Main_L278 ==
    /\ MainRuns /\ pc = "L278"
    /\ ledsON' = ledsONOf(rpm)
    /\ strip' = Render(strip, ledsON', LSflash_flag, lightstrip)
    /\ pc' = "L88"
    /\ UNCHANGED <<P8OUT, P6IFG, isr, shiftVars, rpmCaptureValue, LSflag, rpm,
                   lightstrip, tReg, lastInterval, conv, flashVars, histVars>>

\* line 88: LSflag = 0
Main_L88 ==
    /\ MainRuns /\ pc = "L88"
    /\ LSflag' = FALSE
    /\ conv' = convNone
    /\ again' = FALSE
    /\ pc' = "L90"
    /\ UNCHANGED <<P8OUT, P6IFG, isr, shiftVars, rpmCaptureValue, rpm, ledsON,
                   lightstrip, strip, tReg, lastInterval, flashVars, hallCredit,
                   upStale, downStale, scen, entryRelay, served>>

\* variant: no upper limit
UpShiftGuard_NoLimit(flag, g) == flag

\* line 90: up_flag && gearIndex < 6
UpShiftGuard(flag, g) == flag /\ g < 6

\* line 96: down_flag && gearIndex > 1
DownShiftGuard(flag, g) == flag /\ g > 1

\* lines 92 / 98 and 93 / 99: the two writes of the 7-segment port
SegOn(p, g) == Or8(p, gearON(g))
\* variant: the superfluous segments are not turned off
SegOff_None(p, g) == p
SegOff(p, g) == And8(p, Not8(gearOFF(g)))

\* variant: the flag is left set
FlagAfterShift_Kept == TRUE

\* lines 94 and 100: the value stored in the flag after the gear update
FlagAfterShift == FALSE

Main_L90 ==
    /\ MainRuns /\ pc = "L90"
    /\ pc' = IF UpShiftGuard(up_flag, gearIndex) THEN "L91" ELSE "L96"
    /\ upStale' = IF up_flag /\ ~UpShiftGuard(up_flag, gearIndex)
                  THEN TRUE ELSE upStale
    /\ UNCHANGED <<P8OUT, P6IFG, isr, shiftVars, rpmVars, flashVars,
                   hallCredit, downStale, scen, entryRelay, served, again>>

\* line 91: gearIndex++
Main_L91 ==
    /\ MainRuns /\ pc = "L91"
    /\ gearIndex' = U8(gearIndex + 1)
    /\ hallCredit' = IF hallCredit > 0 THEN hallCredit - 1 ELSE 0
    /\ pc' = "L92"
    /\ UNCHANGED <<P8OUT, P6IFG, isr, P4OUT, up_flag, down_flag, rpmVars,
                   flashVars, upStale, downStale, scen, entryRelay, served, again>>

Main_L92 ==
    /\ MainRuns /\ pc = "L92"
    /\ P4OUT' = SegOn(P4OUT, gearIndex)
    /\ pc' = "L93"
    /\ UNCHANGED <<P8OUT, P6IFG, isr, gearIndex, up_flag, down_flag, rpmVars,
                   flashVars, histVars>>

Main_L93 ==
    /\ MainRuns /\ pc = "L93"
    /\ P4OUT' = SegOff(P4OUT, gearIndex)
    /\ pc' = "L94"
    /\ UNCHANGED <<P8OUT, P6IFG, isr, gearIndex, up_flag, down_flag, rpmVars,
                   flashVars, histVars>>

\* line 94: up_flag = 0; the iteration ends
Main_L94 ==
    /\ MainRuns /\ pc = "L94"
    /\ up_flag' = FlagAfterShift
    /\ upStale' = FALSE
    /\ scen' = ScenAtEnd
    /\ pc' = "L86"
    /\ again' = FALSE
    /\ UNCHANGED <<P8OUT, P6IFG, isr, P4OUT, gearIndex, down_flag, rpmVars,
                   flashVars, hallCredit, downStale, entryRelay, served>>

\* line 96; when the test fails the iteration ends
Main_L96 ==
    /\ MainRuns /\ pc = "L96"
    /\ IF DownShiftGuard(down_flag, gearIndex)
       THEN pc' = "L97" /\ scen' = scen
       ELSE pc' = "L86" /\ scen' = ScenAtEnd
    /\ downStale' = IF down_flag /\ ~DownShiftGuard(down_flag, gearIndex)
                    THEN TRUE ELSE downStale
    /\ UNCHANGED <<P8OUT, P6IFG, isr, shiftVars, rpmVars, flashVars,
                   hallCredit, upStale, entryRelay, served, again>>

\* line 97: gearIndex--
Main_L97 ==
    /\ MainRuns /\ pc = "L97"
    /\ gearIndex' = U8(gearIndex + 255)
    /\ hallCredit' = IF hallCredit > 0 THEN hallCredit - 1 ELSE 0
    /\ pc' = "L98"
    /\ UNCHANGED <<P8OUT, P6IFG, isr, P4OUT, up_flag, down_flag, rpmVars,
                   flashVars, upStale, downStale, scen, entryRelay, served, again>>

Main_L98 ==
    /\ MainRuns /\ pc = "L98"
    /\ P4OUT' = SegOn(P4OUT, gearIndex)
    /\ pc' = "L99"
    /\ UNCHANGED <<P8OUT, P6IFG, isr, gearIndex, up_flag, down_flag, rpmVars,
                   flashVars, histVars>>

Main_L99 ==
    /\ MainRuns /\ pc = "L99"
    /\ P4OUT' = SegOff(P4OUT, gearIndex)
    /\ pc' = "L100"
    /\ UNCHANGED <<P8OUT, P6IFG, isr, gearIndex, up_flag, down_flag, rpmVars,
                   flashVars, histVars>>

\* line 100: down_flag = 0; the iteration ends
Main_L100 ==
    /\ MainRuns /\ pc = "L100"
    /\ down_flag' = FlagAfterShift
    /\ downStale' = FALSE
    /\ scen' = ScenAtEnd
    /\ pc' = "L86"
    /\ again' = FALSE
    /\ UNCHANGED <<P8OUT, P6IFG, isr, P4OUT, gearIndex, up_flag, rpmVars,
                   flashVars, hallCredit, upStale, entryRelay, served>>

----------------------------------------------------------------------------

Next ==
    \/ UpPaddlePulled
    \/ DownPaddlePulled
    \/ UpShiftConfirmed
    \/ DownShiftConfirmed
    \/ PORT6_Entry
    \/ PORT6_L327
    \/ PORT6_L332
    \/ PORT6_L337
    \/ PORT6_L342
    \/ PORT6_L345
    \/ TA0_0_IRQHandler(CruiseIntervals)
    \/ TA1_0_IRQHandler(MaxFire)
    \/ Main_L86
    \/ Main_L271
    \/ Main_L275
    \/ Main_L278
    \/ Main_L88
    \/ Main_L90
    \/ Main_L91
    \/ Main_L92
    \/ Main_L93
    \/ Main_L94
    \/ Main_L96
    \/ Main_L97
    \/ Main_L98
    \/ Main_L99
    \/ Main_L100

Spec == Init /\ [][Next]_vars

\* The tachometer / light-strip part alone: no paddle or hall edge arrives,
\* so the gear branches of the main loop are never entered.
NextRpm ==
    \/ TA0_0_IRQHandler(Intervals)
    \/ TA1_0_IRQHandler(MaxFireRpm)
    \/ Main_L86
    \/ Main_L271
    \/ Main_L275
    \/ Main_L278
    \/ Main_L88
    \/ Main_L90
    \/ Main_L96

SpecRpm == Init /\ [][NextRpm]_vars

\* The flash scheduler over a long run: one tachometer interval, no paddle or
\* hall edge, and enough flash-timer interrupts for the compare target to wrap.
NextFlash ==
    \/ TA0_0_IRQHandler(CruiseIntervals)
    \/ TA1_0_IRQHandler(MaxFireLong)
    \/ Main_L86
    \/ Main_L271
    \/ Main_L275
    \/ Main_L278
    \/ Main_L88
    \/ Main_L90
    \/ Main_L96

SpecFlash == Init /\ [][NextFlash]_vars

TypeOK ==
    /\ P8OUT \in 0..255
    /\ P6IFG \in 0..255
    /\ P4OUT \in 0..255
    /\ gearIndex \in 0..255
    /\ rpm \in 0..65535
    /\ rpmCaptureValue \in 0..65535
    /\ ledsON \in 0..255

----------------------------------------------------------------------------
(* Properties.                                                             *)

AllLeds(st, c) == \A i \in 0..(NUM_LEDS - 1) : st.led[i] = c

\* C1: the up relay (BIT4) and the down relay (BIT5) of P8OUT are never both
\* set, at any observation point, between the two port writes of one handler
\* invocation included.
C1_RelayMutex == ~(And8(P8OUT, BIT4) # 0 /\ And8(P8OUT, BIT5) # 0)

\* C2 as stated: from Idle only a paddle edge changes RelayState; from
\* UpRelayEngaged only the up hall edge returns to Idle, from DownRelayEngaged
\* only the down hall edge; a non-matching confirmation leaves the engaged
\* relay engaged.
C2_MatchingOnly ==
    [][ /\ (Idle /\ ~Idle') => (isr = "none" /\ isr' \in {"L327", "L332"})
        /\ (UpRelayEngaged /\ Idle') => (isr = "none" /\ isr' = "L337")
        /\ (DownRelayEngaged /\ Idle') => (isr = "none" /\ isr' = "L342")
        /\ (UpRelayEngaged /\ isr = "none" /\ isr' = "L342") => UpRelayEngaged'
        /\ (DownRelayEngaged /\ isr = "none" /\ isr' = "L337") => DownRelayEngaged'
      ]_vars

\* C2 amended: from Idle only a paddle edge changes RelayState; from an
\* engaged state only a hall confirmation edge returns to Idle, and either
\* confirmation does, the non-matching one included.
C2_EitherConfirmation ==
    [][ /\ (Idle /\ ~Idle') => (isr = "none" /\ isr' \in {"L327", "L332"})
        /\ (~Idle /\ Idle') => (isr = "none" /\ isr' \in {"L337", "L342"})
        /\ (isr = "none" /\ isr' \in {"L337", "L342"}) => Idle'
      ]_vars

\* a down hall edge has just released the engaged up relay
C2_Witness == isr = "L342" /\ entryRelay = BIT4 /\ Idle

\* C3: gearIndex is always in 1..6 and every step that changes it changes it
\* by exactly +1 or -1.
C3_GearRange ==
    /\ [](gearIndex \in 1..6)
    /\ [][gearIndex' # gearIndex =>
             (gearIndex' = gearIndex + 1 \/ gearIndex' = gearIndex - 1)]_vars

\* gear 6 was reached and a further up request has been refused
C3_Witness == gearIndex = 6 /\ upStale /\ pc = "L96"

\* C4: every change of gearIndex is made by the main loop on a flag that a
\* hall edge set, and there are never more changes than hall edges handled.
C4_ConfirmationOnly ==
    [][gearIndex' # gearIndex =>
          /\ hallCredit > 0
          /\ \/ pc = "L91" /\ up_flag
             \/ pc = "L97" /\ down_flag]_vars

\* the only hall edge handled so far has just been spent on a gear change
C4_Witness == pc = "L92" /\ gearIndex = 2 /\ hallCredit = 0 /\ up_flag

\* C5: a confirmation handled at the boundary (up at gear 6, down at gear 1)
\* is dropped by the main loop and has no effect on any later gear change.
C5_BoundaryDropped ==
    [][ /\ (gearIndex' = gearIndex + 1) => ~upStale
        /\ (gearIndex' = gearIndex - 1) => ~downStale ]_vars

\* C6: from Idle at gear g with no flag pending, up paddle, up hall and one
\* main-loop iteration end with both relays off, gearIndex = g+1 and P4OUT =
\* gearON[g+1] (g <= 5); symmetrically down to g-1 (g >= 2).
C6_ConfirmedShift ==
    /\ (scen.ph = 4 /\ scen.dir = "up" /\ scen.g <= 5) =>
          (Idle /\ gearIndex = scen.g + 1 /\ P4OUT = gearONTable[scen.g + 2])
    /\ (scen.ph = 4 /\ scen.dir = "down" /\ scen.g >= 2) =>
          (Idle /\ gearIndex = scen.g - 1 /\ P4OUT = gearONTable[scen.g])

\* scenario C: the sequence was run from gear 3
C6_Witness == scen.ph = 4 /\ scen.dir = "up" /\ scen.g = 3 /\ gearIndex = 4

\* C7: after a paddle edge served in Idle with no flag pending, and as long
\* as no further paddle or hall edge is served, the relay stays engaged and
\* gearIndex does not change.
C7_NoTimeout ==
    scen.ph = 1 =>
       /\ gearIndex = scen.g
       /\ scen.dir = "up" => UpRelayEngaged
       /\ scen.dir = "down" => DownRelayEngaged

\* the up relay is still engaged after the handler returned, a main-loop
\* iteration started, a sample was rendered and the flash timer fired
C7_Witness ==
    /\ scen.ph = 1 /\ scen.dir = "up" /\ scen.it = 1
    /\ isr = "none" /\ pc = "L88" /\ nFire = 1 /\ UpRelayEngaged

\* C8: the division of rpmtoLS is never evaluated with a tick count of 0,
\* and whenever the tick count used is 0 the resulting rpm is 0.
C8_DivisionGuard ==
    conv.on => /\ conv.div => conv.t # 0
               /\ conv.t = 0 => rpm = 0

\* C9 as stated: for t in 1..65535 rpm is 5625000/t rounded to the nearest
\* integer; for t = 0 rpm is 0.
C9_Nearest ==
    conv.on =>
       /\ conv.t \in 1..65535 => rpm = (2 * 5625000 + conv.t) \div (2 * conv.t)
       /\ conv.t = 0 => rpm = 0

\* C9 amended: when the guard reads 0, rpm is 0; when the division is done
\* with t in 86..65535, rpm is 5625000/t truncated to an integer.
C9_Truncated ==
    conv.on =>
       /\ ~conv.div => (conv.t = 0 /\ rpm = 0)
       /\ (conv.div /\ conv.t \in 86..65535) => rpm = 5625000 \div conv.t

\* 5625000/999 = 5630.6 is stored as 5630
C9_Witness == conv.on /\ conv.div /\ conv.t = 999 /\ rpm = 5630

\* C10 as stated: for every speed at or above 10500 RPM a render leaves the
\* strip all red when LSflash_flag is true and all off when it is false, and
\* consecutive flash-timer firings alternate the flag.
C10_Threshold ==
    [][ /\ (pc = "L278" /\ pc' = "L88" /\ rpm >= MAX_RPM - 1500) =>
              AllLeds(strip', IF LSflash_flag THEN Red ELSE Off)
        /\ (nFire' # nFire) => (LSflash_flag' = ~LSflash_flag)
      ]_vars

\* C10 amended: the same for every speed with ledsON > 30, that is, at or
\* above 10850 RPM.
C10_FlashMode ==
    [][ /\ (pc = "L278" /\ pc' = "L88" /\ rpm >= 10850) =>
              AllLeds(strip', IF LSflash_flag THEN Red ELSE Off)
        /\ (nFire' # nFire) => (LSflash_flag' = ~LSflash_flag)
      ]_vars

\* a render at 12019 RPM after the first firing left the strip all red
C10_Witness ==
    /\ pc = "L88" /\ rpm = 12019 /\ ledsON = 34
    /\ AllLeds(strip, Red) /\ nFire = 1 /\ LSflash_flag

\* the colour bands of the table: 18 green, 6 yellow, 6 red
BandColour(i) == IF i < 18 THEN <<0, 255, 0>>
                 ELSE IF i < 24 THEN <<255, 255, 0>> ELSE <<255, 0, 0>>

\* C11: below the shift threshold ledsON = (s*30)/10500 does not decrease
\* when the speed does not, and the render sends, after the start frame,
\* exactly ledsON LED frames coloured lightstrip[0..ledsON-1] in order; about
\* 6000 RPM lights 17 LEDs, all green, the rest off.
C11_BarGraph ==
    [][ (pc = "L278" /\ pc' = "L88" /\ rpm < 10500) =>
           /\ ledsON' = (rpm * 30) \div 10500
           /\ strip'.ptr = ledsON'
           /\ \A i \in 0..(ledsON' - 1) : strip'.led[i] = BandColour(i)
           /\ (conv.prev <= rpm) => (ledsON <= ledsON')
           /\ (rpm = 6003) =>
                 /\ ledsON' = 17
                 /\ \A i \in 0..29 : strip'.led[i] =
                                        IF i < 17 THEN <<0, 255, 0>> ELSE Off
      ]_vars

\* a render at 6003 RPM (17 LEDs) that followed one at 5630 RPM (16 LEDs)
C11_Witness ==
    /\ pc = "L88" /\ conv.on /\ conv.prev = 5630 /\ rpm = 6003 /\ ledsON = 17
    /\ strip.led[16] = <<0, 255, 0>> /\ strip.led[17] = Off /\ strip.ptr = 17

\* C12: after a render in bar-graph mode with ledsON = k every LED at index
\* k or above is off, whatever an earlier render left on the strip.
C12_NoGhostLeds ==
    (pc = "L88" /\ ledsON <= NUM_LEDS) =>
        \A i \in 0..(NUM_LEDS - 1) : i >= ledsON => strip.led[i] = Off

\* a 16-LED bar rendered after a 30-LED bar (10514 RPM)
C12_Witness ==
    /\ pc = "L88" /\ conv.on /\ conv.prev = 10514 /\ rpm = 5630 /\ ledsON = 16
    /\ strip.led[15] = <<0, 255, 0>> /\ strip.led[29] = Off

\* C13: a flag that its handler sets again while the main loop is processing
\* that flag is still set when the main loop has finished processing it, so
\* the next iteration finds it.  (again records only a re-set that came after
\* the main loop had used the event: after the conversion for LSflag, after
\* the test of the flag for up_flag and down_flag.)
C13_NoLostSignal ==
    [][ /\ (pc = "L88" /\ pc' = "L90" /\ again) => LSflag'
        /\ (pc = "L94" /\ pc' = "L86" /\ again) => up_flag'
        /\ (pc = "L100" /\ pc' = "L86" /\ again) => down_flag'
      ]_vars

\* C14: the port handler clears only the pending indication of the line it
\* served; every other pending line stays pending.
C14_IndividualAck ==
    [][ (isr = "L345" /\ isr' = "none") =>
            P6IFG' = And8(P6IFG, Not8(served)) ]_vars

\* bytes on the wire since the last start frame began: the four bytes of the
\* start frame and four bytes for each LED frame after it
WireBytes(st) == 4 + 4 * st.ptr

\* C15: one call of clearLS sends one start frame followed by exactly
\* NUM_LEDS LED frames and nothing else, 4 + 4 * NUM_LEDS bytes in total.
\* (A render in the shift zone with the flash flag off ends with a call of
\* clearLS, so the frames since the last start frame are those of that call.)
C15_ClearFraming ==
    [][ (pc = "L278" /\ pc' = "L88" /\ InShiftZone(ledsON') /\ ~LSflash_flag) =>
            /\ strip'.ptr = NUM_LEDS
            /\ WireBytes(strip') = 4 + 4 * NUM_LEDS ]_vars

\* C16: for every new gear g and every previous value of the 8-bit port,
\* after P4OUT |= gearON[g] followed by P4OUT &= ~gearOFF[g] the port equals
\* exactly gearON[g]: no segment of the previous digit remains lit.
C16_GearDisplayUpdate ==
    [][ ((pc = "L93" /\ pc' = "L94") \/ (pc = "L99" /\ pc' = "L100")) =>
            /\ gearIndex' \in 1..6
            /\ P4OUT' = gearON(gearIndex')
            /\ \A p \in 0..255 :
                  SegOff(SegOn(p, gearIndex'), gearIndex') = gearON(gearIndex')
      ]_vars

\* the display shows 3 after the up-shift from 2, whose digit lights segment
\* bit 4 that the digit 3 does not
C16_Witness == pc = "L94" /\ gearIndex = 3 /\ P4OUT = 167

\* C17: at every main-loop iteration boundary from power-up onward the
\* 7-segment port equals gearON[gearIndex], also before the first shift.
C17_DisplayMatches == (pc = "L86") => P4OUT = gearON(gearIndex)

\* C18: no main-loop step changes rpmCaptureValue, LSflash_flag or the relay
\* bits of P8OUT, and no handler step changes gearIndex, P4OUT, rpm, ledsON or
\* the colour table; the flags LSflag, up_flag and down_flag are set only by
\* handlers and cleared only by the main loop.  (Every main-loop step moves pc
\* and no other step does.)
C18_SingleWriter ==
    [][ /\ (pc' # pc) =>
              /\ rpmCaptureValue' = rpmCaptureValue
              /\ LSflash_flag' = LSflash_flag
              /\ And8(P8OUT', RelayMask) = And8(P8OUT, RelayMask)
              /\ LSflag' => LSflag
              /\ up_flag' => up_flag
              /\ down_flag' => down_flag
        /\ (pc' = pc) =>
              /\ gearIndex' = gearIndex
              /\ P4OUT' = P4OUT
              /\ rpm' = rpm
              /\ ledsON' = ledsON
              /\ lightstrip' = lightstrip
              /\ LSflag => LSflag'
              /\ up_flag => up_flag'
              /\ down_flag => down_flag'
      ]_vars

\* both contexts have written: the main loop the gear, the display and the
\* conversion, the handlers a fresh sample, the flash phase and a relay
C18_Witness ==
    /\ gearIndex = 2 /\ P4OUT = gearON(2) /\ rpm = 5630 /\ pc = "L90"
    /\ LSflag /\ LSflash_flag /\ UpRelayEngaged

\* C19: after each tachometer capture interrupt rpmCaptureValue equals the
\* number of ticks between the previous pulse and this one, whether or not
\* the previous sample was read, for every interval length, and LSflag is set.
\* (Only the capture handler sets LSflag or records a new interval.)
C19_FrequencySampling ==
    [][ ((~LSflag /\ LSflag') \/ lastInterval' # lastInterval) =>
            /\ rpmCaptureValue' = lastInterval'
            /\ LSflag'
      ]_vars

\* C20: each flash-timer interrupt toggles LSflash_flag and adds 4000 to the
\* 16-bit compare target; after n interrupts from start-up LSflash_flag is
\* true exactly when n is odd and the compare target is
\* (4000 * (n + 1)) mod 65536, and no other step changes either.
C20_FlashScheduler ==
    /\ LSflash_flag = (nFire % 2 = 1)
    /\ TA1_CCR0 = (4000 * (nFire + 1)) % 65536

\* the compare target has wrapped: 4000 * 18 = 72000 = 65536 + 6464
C20_Witness == nFire = 17 /\ LSflash_flag /\ TA1_CCR0 = 6464

====
